---------------------------- MODULE Spec2Model ----------------------------
(***************************************************************************)
(* PSD feature pipeline of EarthquakeML_DataPrepTools.                     *)
(*                                                                         *)
(* The batch loop of PSD_Background_processor.py and                       *)
(* PSD_Earthquake_processor.py (the two scripts are the same loop; the     *)
(* earthquake one also carries the event's metadata), and                  *)
(* generate_background_hours of generateBackgroundData.py.                 *)
(*                                                                         *)
(* A waveform is represented by its length: the filters preserve length,   *)
(* the resampler and the slicing are functions of lengths and indices, and *)
(* a PSD window is represented by the segment it was estimated from.       *)
(* Library calls (scipy.signal, pandas) are modelled by their documented   *)
(* length/exception behaviour at the call site.                            *)
(***************************************************************************)
EXTENDS Integers, Sequences, FiniteSets, TLC

VARIABLES
    path,              \* which script runs: "background" or "earthquake"
    fs_in,             \* fs_in   (Hz)
    fs_out,            \* fs_out  (Hz); fs = fs_out
    overlapQ,          \* overlap, in quarters (overlap = overlapQ / 4)
    nEvents,           \* len(eventNames)
    inputLens,         \* waveform lengths the records of the input container may have
    idx,               \* position of eventName in eventNames (1-based; 0 before the loop)
    pc,                \* position in the script
    rawLen,            \* len of the waveform column read from the input record
    metadata,          \* metadata (earthquake script only)
    waveLen,           \* len(waveform)
    num_windows,       \* num_windows
    w,                 \* next value of the range(num_windows) iterator
    eventPSD,          \* eventPSD
    psdResults,        \* psdResults
    goodEventCounter,  \* goodEventCounter
    saved,             \* what pickle.dump wrote, one element per dump
    outcomes,          \* history: outcome of every finished event, in input order
    trace,             \* history: operations performed for the current event
    psd0,              \* history: psdResults when the current event started
    ctr0,              \* history: goodEventCounter when the current event started
    bgpc,              \* position in generateBackgroundData.py
    earthquake_datetimes, \* earthquake times (minutes)
    start_time,        \* start_time
    end_time,          \* end_time
    background_hours   \* background_hours

vars == <<path, fs_in, fs_out, overlapQ, nEvents, inputLens, idx, pc, rawLen, metadata,
          waveLen, num_windows, w, eventPSD, psdResults, goodEventCounter,
          saved, outcomes, trace, psd0, ctr0,
          bgpc, earthquake_datetimes, start_time, end_time, background_hours>>

pipeVars == <<path, fs_in, fs_out, overlapQ, nEvents, inputLens, idx, pc, rawLen, metadata,
              waveLen, num_windows, w, eventPSD, psdResults, goodEventCounter,
              saved, outcomes, trace, psd0, ctr0>>

bgVars == <<bgpc, earthquake_datetimes, start_time, end_time, background_hours>>

---------------------------------------------------------------------------
(* Bounds of the model *)

\* largest number of events in the input container
MaxEvents == 3

\* largest raw waveform length explored under the varied configurations
MaxRaw == 110

---------------------------------------------------------------------------
(* Arithmetic helpers *)

Min(a, b) == IF a < b THEN a ELSE b

Max(a, b) == IF a > b THEN a ELSE b

RECURSIVE GCD(_, _)
GCD(a, b) == IF b = 0 THEN a ELSE GCD(b, a % b)

\* decimal digits of n >= 0, most significant first
RECURSIVE Digits(_)
Digits(n) == IF n < 10 THEN <<n>> ELSE Append(Digits(n \div 10), n % 10)

RECURSIVE ZeroFill(_, _)
ZeroFill(ds, width) == IF Len(ds) >= width THEN ds ELSE ZeroFill(<<0>> \o ds, width)

\* the format spec  :03d
Pad3(n) == ZeroFill(Digits(n), 3)

\* d[k] = v on a dict
DictSet(d, k, v) == [x \in DOMAIN d \cup {k} |-> IF x = k THEN v ELSE d[x]]

EmptyDict == [x \in {} |-> 0]

---------------------------------------------------------------------------
(* Configuration: PSD_*_processor.py, "parameters" *)

delta_t == 10

MinWindows == 11

fs == fs_out

\* window_size = int(fs * delta_t)
window_size == fs * delta_t

\* stride = int(window_size * (1 - overlap)); int() truncates
stride == (window_size * (4 - overlapQ)) \div 4

---------------------------------------------------------------------------
(* scipy.signal as used by the helper functions *)

\* filtfilt(b, a, x) pads by 3 * max(len(a), len(b)) samples on each side and
\* raises ValueError unless len(x) is greater than that
FiltfiltRaises(ntaps, n) == n <= 3 * ntaps

\* dc_block: filtfilt with b = [1, -1], a = [1, -a]
DcBlockRaises(n) == FiltfiltRaises(2, n)

\* butter(4, Wn): ValueError unless 0 < Wn < 1, Wn = num / den
ButterRaises(num, den) ==
    \/ den = 0
    \/ den > 0 /\ ~(0 < num /\ num < den)
    \/ den < 0 /\ ~(den < num /\ num < 0)

\* resample_poly(x, up, down): ValueError unless up, down >= 1
ResamplePolyRaises(up, down) == up < 1 \/ down < 1

\* variant of ResamplePolyLen that rounds down
ResamplePolyLenFloor(n, up, down) ==
    LET g == GCD(up, down) IN (n * (up \div g)) \div (down \div g)

\* resample_poly output length: n_out = n_in * up; n_out // down + bool(n_out % down)
\* (up and down reduced by their gcd)
ResamplePolyLen(n, up, down) ==
    LET g  == GCD(up, down)
        u  == up \div g
        d  == down \div g
        no == n * u
    IN  (no \div d) + (IF no % d # 0 THEN 1 ELSE 0)

\* safe_resample raises: dc_block, fc / (fs_in / 2) and butter, filtfilt with the
\* 4th-order low-pass (5 taps), resample_poly
\* Wn = 0.9 * min(fs_in, fs_out) / 2 / (fs_in / 2) = 9 min(fs_in, fs_out) / (10 fs_in)
SafeResampleRaises(n, fi, fo) ==
    \/ DcBlockRaises(n)
    \/ ButterRaises(9 * Min(fi, fo), 10 * fi)
    \/ FiltfiltRaises(5, n)
    \/ ResamplePolyRaises(fo, fi)

\* preprocess raises: dc_block, butter(4, 0.1 / (fs / 2)) = butter(4, 1 / (5 fs)),
\* filtfilt with the 4th-order high-pass (5 taps)
PreprocessRaises(n, f) ==
    \/ DcBlockRaises(n)
    \/ ButterRaises(1, 5 * f)
    \/ FiltfiltRaises(5, n)

\* len(waveform[a:b]) for 0 <= a <= b: a Python slice is clipped to the array
SliceLen(n, a, b) == Max(0, Min(b, n) - Min(a, n))

RECURSIVE NextPow2From(_, _)
NextPow2From(p, n) == IF p >= n THEN p ELSE NextPow2From(2 * p, n)

\* welch_psd: nperseg = int(fs * 5), nfft = 2 ** ceil(log2(nperseg))
nperseg(f) == f * 5

nfft(f) == NextPow2From(1, nperseg(f))

\* signal.welch with a window array longer than the input raises ValueError
WelchRaises(segLen, f) == nperseg(f) > segLen

\* number of one-sided bins k * fs / nfft (k = 0 .. nfft / 2) that are <= 10 Hz
KeptBins(f) == Min(nfft(f) \div 2, (10 * nfft(f)) \div f) + 1

\* the value stored for one window: {'power': pxx, 'frequency': f}
WelchPsd(seg, f) ==
    [power     |-> [of |-> seg, bins |-> KeptBins(f)],
     frequency |-> [rate |-> f, bins |-> KeptBins(f)]]

---------------------------------------------------------------------------
(* The batch loop *)

\* variant of NumWindows without the + 1
NumWindowsNoPlusOne(L, Wd, S) == (L - Wd) \div S

\* variant of NumWindows that rounds up, counting the partial tail as a window
NumWindowsCeil(L, Wd, S) == ((L - Wd) + S - 1) \div S + 1

\* num_windows = (len(waveform) - window_size) // stride + 1
NumWindows(L, Wd, S) == (L - Wd) \div S + 1

\* variant of GateRejects with <= for <
GateRejectsInclusive(nw) == nw <= MinWindows

\* if num_windows < 11
GateRejects(nw) == nw < MinWindows

\* variant of WinName with w for w + 1
WinNameZeroBased(i) == [prefix |-> "window_", digits |-> Pad3(i)]

\* winName = f'window_{w+1:03d}'
WinName(i) == [prefix |-> "window_", digits |-> Pad3(i + 1)]

\* keyName = f'event_{goodEventCounter:03d}'
KeyName(c) == [prefix |-> "event_", digits |-> Pad3(c)]

MetaKey == [prefix |-> "metadata", digits |-> <<>>]

\* metadata records an input container may hold
Metas == {"metaA", "metaB"}

\* variant of NextPc with preprocess moved before the length check
NextPcSwapped(p) ==
    CASE p = "extract"    -> "resample"
      [] p = "resample"   -> "preprocess"
      [] p = "preprocess" -> "lencheck"
      [] p = "lencheck"   -> "count"
      [] p = "count"      -> "newpsd"
      [] p = "newpsd"     -> "welch"
      [] p = "welch"      -> "store"
      [] OTHER            -> "for"

\* order of the statements of the loop body
NextPc(p) ==
    CASE p = "extract"    -> "resample"
      [] p = "resample"   -> "lencheck"
      [] p = "lencheck"   -> "preprocess"
      [] p = "preprocess" -> "count"
      [] p = "count"      -> "newpsd"
      [] p = "newpsd"     -> "welch"
      [] p = "welch"      -> "store"
      [] OTHER            -> "for"

Op(name) == [op |-> name, a |-> 0, n |-> 0]

\* raw waveform lengths the input container holds in Spec and SpecCfg
InputLens ==
    IF fs_in = 20 /\ fs_out = 100
    THEN {0, 15, 16, 199, 200, 1199, 1200, 1201, 1300}
    ELSE 0 .. MaxRaw

\* variant of Except that also increments goodEventCounter
ExceptConsumesKey(tr) ==
    /\ pc' = "for"
    /\ trace' = Append(tr, Op("except"))
    /\ outcomes' = Append(outcomes, "error")
    /\ goodEventCounter' = goodEventCounter + 1
    /\ UNCHANGED <<path, fs_in, fs_out, overlapQ, nEvents, inputLens, idx, rawLen, metadata,
                   waveLen, num_windows, w, eventPSD, psdResults,
                   saved, psd0, ctr0, bgVars>>

\* variant of Except that stores the windows computed so far
ExceptKeepsPartial(tr) ==
    /\ pc' = "for"
    /\ trace' = Append(tr, Op("except"))
    /\ outcomes' = Append(outcomes, "error")
    /\ psdResults' = IF pc = "welch"
                     THEN DictSet(psdResults, KeyName(goodEventCounter), eventPSD)
                     ELSE psdResults
    /\ UNCHANGED <<path, fs_in, fs_out, overlapQ, nEvents, inputLens, idx, rawLen, metadata,
                   waveLen, num_windows, w, eventPSD, goodEventCounter,
                   saved, psd0, ctr0, bgVars>>

\* except Exception as e: tqdm.write(...); the loop goes on with the next event.
\* tr is the current event's trace up to the statement that raised.  The trace
\* holds the statements that completed, every welch_psd call with the segment
\* passed to it, "fault" for an exception of the second kind, and "except"
Except(tr) ==
    /\ pc' = "for"
    /\ trace' = Append(tr, Op("except"))
    /\ outcomes' = Append(outcomes, "error")
    /\ UNCHANGED <<path, fs_in, fs_out, overlapQ, nEvents, inputLens, idx, rawLen, metadata,
                   waveLen, num_windows, w, eventPSD, psdResults, goodEventCounter,
                   saved, psd0, ctr0, bgVars>>

\* tqdm.write('Skipping ...'); continue
Skip(kind, tr) ==
    /\ pc' = "for"
    /\ trace' = tr
    /\ outcomes' = Append(outcomes, kind)

\* for eventName in tqdm(eventNames): ... / loop exit
ForHead ==
    /\ pc = "for"
    /\ IF idx < nEvents
       THEN /\ idx' = idx + 1
            /\ pc' = "extract"
            /\ trace' = <<>>
            /\ psd0' = psdResults
            /\ ctr0' = goodEventCounter
       ELSE /\ pc' = "dump"
            /\ UNCHANGED <<idx, trace, psd0, ctr0>>
    /\ UNCHANGED <<path, fs_in, fs_out, overlapQ, nEvents, inputLens, rawLen, metadata,
                   waveLen, num_windows, w, eventPSD, psdResults, goodEventCounter,
                   saved, outcomes, bgVars>>

\* eventStuct = data[eventName]; waveform = ...[:, -1]; np.array(..., dtype=float);
\* metadata = eventStuct['metadata'] (earthquake script).
\* A record without the expected keys or with non-numeric samples raises
Extract ==
    /\ pc = "extract"
    /\ \E wellFormed \in BOOLEAN, n \in inputLens, m \in Metas :
          IF ~wellFormed
          THEN Except(trace)
          ELSE /\ rawLen' = n
               /\ waveLen' = n
               /\ metadata' = IF path = "earthquake" THEN m ELSE metadata
               /\ trace' = Append(trace, Op("extract"))
               /\ pc' = NextPc(pc)
               /\ UNCHANGED <<path, fs_in, fs_out, overlapQ, nEvents, inputLens, idx,
                              num_windows, w, eventPSD, psdResults,
                              goodEventCounter, saved, outcomes, psd0, ctr0, bgVars>>

\* waveform = safe_resample(waveform, fs_in, fs_out)
\* fault: an exception raised inside the library for another reason (MemoryError)
Resample ==
    /\ pc = "resample"
    /\ \E fault \in BOOLEAN :
          IF fault
          THEN Except(Append(trace, Op("fault")))
          ELSE IF SafeResampleRaises(waveLen, fs_in, fs_out)
          THEN Except(trace)
          ELSE /\ waveLen' = ResamplePolyLen(waveLen, fs_out, fs_in)
               /\ trace' = Append(trace, Op("resample"))
               /\ pc' = NextPc(pc)
               /\ UNCHANGED <<path, fs_in, fs_out, overlapQ, nEvents, inputLens, idx, rawLen,
                              metadata, num_windows, w, eventPSD, psdResults,
                              goodEventCounter, saved, outcomes, psd0, ctr0, bgVars>>

\* if len(waveform) < window_size: tqdm.write(...); continue
LengthCheck ==
    /\ pc = "lencheck"
    /\ IF waveLen < window_size
       THEN Skip("short", Append(trace, Op("lencheck")))
       ELSE /\ pc' = NextPc(pc)
            /\ trace' = Append(trace, Op("lencheck"))
            /\ UNCHANGED outcomes
    /\ UNCHANGED <<path, fs_in, fs_out, overlapQ, nEvents, inputLens, idx, rawLen, metadata,
                   waveLen, num_windows, w, eventPSD, psdResults, goodEventCounter,
                   saved, psd0, ctr0, bgVars>>

\* waveform = preprocess(waveform, fs)
Preprocess ==
    /\ pc = "preprocess"
    /\ \E fault \in BOOLEAN :
          IF fault
          THEN Except(Append(trace, Op("fault")))
          ELSE IF PreprocessRaises(waveLen, fs)
          THEN Except(trace)
          ELSE /\ trace' = Append(trace, Op("preprocess"))
               /\ pc' = NextPc(pc)
               /\ UNCHANGED <<path, fs_in, fs_out, overlapQ, nEvents, inputLens, idx, rawLen,
                              metadata, waveLen, num_windows, w, eventPSD,
                              psdResults, goodEventCounter, saved, outcomes,
                              psd0, ctr0, bgVars>>

\* num_windows = ...; if num_windows < 11: tqdm.write(...); continue
\* (a zero stride raises ZeroDivisionError)
CountWindows ==
    /\ pc = "count"
    /\ IF stride = 0
       THEN Except(trace)
       ELSE /\ num_windows' = NumWindows(waveLen, window_size, stride)
            /\ IF GateRejects(num_windows')
               THEN Skip("fewwin", Append(trace, Op("count")))
               ELSE /\ pc' = NextPc(pc)
                    /\ trace' = Append(trace, Op("count"))
                    /\ UNCHANGED outcomes
            /\ UNCHANGED <<path, fs_in, fs_out, overlapQ, nEvents, inputLens, idx, rawLen,
                           metadata, waveLen, w, eventPSD, psdResults,
                           goodEventCounter, saved, psd0, ctr0, bgVars>>

\* eventPSD = {}  /  eventPSD = {'metadata': metadata}; the range iterator starts
NewEventPSD ==
    /\ pc = "newpsd"
    /\ eventPSD' = IF path = "earthquake"
                   THEN DictSet(EmptyDict, MetaKey, metadata)
                   ELSE EmptyDict
    /\ w' = 0
    /\ pc' = NextPc(pc)
    /\ UNCHANGED <<path, fs_in, fs_out, overlapQ, nEvents, inputLens, idx, rawLen, metadata,
                   waveLen, num_windows, psdResults, goodEventCounter,
                   saved, outcomes, trace, psd0, ctr0, bgVars>>

\* one iteration of  for w in range(num_windows),  or the loop's exit
WelchWindow ==
    /\ pc = "welch"
    /\ IF w < num_windows
       THEN LET idx_start == w * stride
                idx_end   == idx_start + window_size
                segment   == [event |-> idx, start |-> idx_start,
                              n |-> SliceLen(waveLen, idx_start, idx_end)]
                tr        == Append(trace, [op |-> "welch", a |-> idx_start,
                                            n |-> segment.n])
            IN  \E fault \in BOOLEAN :
                   IF fault
                   THEN Except(Append(tr, Op("fault")))
                   ELSE IF WelchRaises(segment.n, fs)
                   THEN Except(tr)
                   ELSE /\ eventPSD' = DictSet(eventPSD, WinName(w),
                                               WelchPsd(segment, fs))
                        /\ w' = w + 1
                        /\ trace' = tr
                        /\ UNCHANGED <<pc, outcomes>>
                        /\ UNCHANGED <<path, fs_in, fs_out, overlapQ, nEvents, inputLens, idx,
                                       rawLen, metadata, waveLen, num_windows,
                                       psdResults, goodEventCounter, saved, psd0,
                                       ctr0, bgVars>>
       ELSE /\ pc' = NextPc(pc)
            /\ UNCHANGED <<w, eventPSD, trace, outcomes>>
            /\ UNCHANGED <<path, fs_in, fs_out, overlapQ, nEvents, inputLens, idx,
                           rawLen, metadata, waveLen, num_windows,
                           psdResults, goodEventCounter, saved, psd0,
                           ctr0, bgVars>>

\* variant of StoreEvent that does not increment goodEventCounter
StoreEventNoIncrement ==
    /\ pc = "store"
    /\ psdResults' = DictSet(psdResults, KeyName(goodEventCounter), eventPSD)
    /\ outcomes' = Append(outcomes, "accepted")
    /\ trace' = Append(trace, Op("store"))
    /\ pc' = NextPc(pc)
    /\ UNCHANGED <<path, fs_in, fs_out, overlapQ, nEvents, inputLens, idx, rawLen, metadata,
                   waveLen, num_windows, w, eventPSD, goodEventCounter, saved,
                   psd0, ctr0, bgVars>>

\* keyName = ...; psdResults[keyName] = eventPSD; goodEventCounter += 1
StoreEvent ==
    /\ pc = "store"
    /\ psdResults' = DictSet(psdResults, KeyName(goodEventCounter), eventPSD)
    /\ goodEventCounter' = goodEventCounter + 1
    /\ outcomes' = Append(outcomes, "accepted")
    /\ trace' = Append(trace, Op("store"))
    /\ pc' = NextPc(pc)
    /\ UNCHANGED <<path, fs_in, fs_out, overlapQ, nEvents, inputLens, idx, rawLen, metadata,
                   waveLen, num_windows, w, eventPSD, saved, psd0, ctr0, bgVars>>

\* with open(output_path, 'wb') as f: pickle.dump(psdResults, f)
Dump ==
    /\ pc = "dump"
    /\ saved' = Append(saved, psdResults)
    /\ pc' = "done"
    /\ UNCHANGED <<path, fs_in, fs_out, overlapQ, nEvents, inputLens, idx, rawLen, metadata,
                   waveLen, num_windows, w, eventPSD, psdResults, goodEventCounter,
                   outcomes, trace, psd0, ctr0, bgVars>>

---------------------------------------------------------------------------
(* Specifications *)

BgIdle ==
    /\ bgpc = "off"
    /\ earthquake_datetimes = {}
    /\ start_time = 0
    /\ end_time = 0
    /\ background_hours = {}

\* state of the script when the loop is about to start
PipeStart ==
    /\ idx = 0
    /\ pc = "for"
    /\ rawLen = 0
    /\ metadata = "unbound"
    /\ waveLen = 0
    /\ num_windows = 0
    /\ w = 0
    /\ eventPSD = EmptyDict
    /\ psdResults = EmptyDict
    /\ goodEventCounter = 1
    /\ saved = <<>>
    /\ outcomes = <<>>
    /\ trace = <<>>
    /\ psd0 = EmptyDict
    /\ ctr0 = 1

\* the scripts as written: fs_in = 20, fs_out = 100, overlap = 0.5
Init ==
    /\ path \in {"background", "earthquake"}
    /\ fs_in = 20
    /\ fs_out = 100
    /\ overlapQ = 2
    /\ nEvents \in 0 .. MaxEvents
    /\ inputLens = InputLens
    /\ PipeStart
    /\ BgIdle

Next ==
    \/ ForHead
    \/ Extract
    \/ Resample
    \/ LengthCheck
    \/ Preprocess
    \/ CountWindows
    \/ NewEventPSD
    \/ WelchWindow
    \/ StoreEvent
    \/ Dump

Spec == Init /\ [][Next]_vars

\* other values of the configuration constants: <<fs_in, fs_out, overlapQ>>
Configs ==
    {<<<<20, 100>>, 2>>} \cup
    ({<<1, 1>>, <<1, 2>>, <<2, 1>>, <<3, 2>>, <<2, 3>>, <<5, 1>>} \X {1, 2, 3})
    \cup {<<<<1, 1>>, 4>>, <<<<0, 100>>, 2>>, <<<<20, 0>>, 2>>,
          <<<<-20, 100>>, 2>>, <<<<0, 0>>, 2>>}

\* the background script on a batch of at most one event, under Configs (the
\* windowing and the resampler are per-event functions of the configuration)
InitCfg ==
    /\ path = "background"
    /\ \E c \in Configs :
          /\ fs_in = c[1][1]
          /\ fs_out = c[1][2]
          /\ overlapQ = c[2]
    /\ nEvents \in {0, 1}
    /\ inputLens = InputLens
    /\ PipeStart
    /\ BgIdle

SpecCfg == InitCfg /\ [][Next]_vars

\* largest raw waveform length of the range explored under the default configuration
MaxRawDefault == 1210

\* the scripts as written on a batch of at most one event, the waveform of any
\* length up to MaxRawDefault or of 4000 samples (200 s at 20 Hz)
InitRaw ==
    /\ path \in {"background", "earthquake"}
    /\ fs_in = 20
    /\ fs_out = 100
    /\ overlapQ = 2
    /\ nEvents \in {0, 1}
    /\ inputLens = (0 .. MaxRawDefault) \cup {4000}
    /\ PipeStart
    /\ BgIdle

SpecRaw == InitRaw /\ [][Next]_vars

---------------------------------------------------------------------------
(* generateBackgroundData.py: the background hours.  Times are in minutes. *)

\* largest hour of an earthquake time in the catalogue
MaxQuakeHour == 3

\* freq='H'
MinutesPerHour == 60

\* buffer_hours=1
BufferHours == 1

\* Timestamp.floor('h')
FloorHour(t) == (t \div MinutesPerHour) * MinutesPerHour

\* Timestamp.ceil('h')
CeilHour(t) == ((t + MinutesPerHour - 1) \div MinutesPerHour) * MinutesPerHour

\* pd.date_range(start=s, end=e, freq='H'): s, s + 1h, s + 2h, ... up to e
DateRangeH(s, e) ==
    IF e < s THEN {}
    ELSE {s + k * MinutesPerHour : k \in 0 .. ((e - s) \div MinutesPerHour)}

\* generate_background_hours(start_time, end_time, earthquake_datetimes, buffer_hours)
GenerateBackgroundHours(s, e, quakes, buffer_hours) ==
    LET all_hours == DateRangeH(s, e)
        excluded  == UNION {DateRangeH(dt - buffer_hours * MinutesPerHour,
                                       dt + buffer_hours * MinutesPerHour) :
                            dt \in quakes}
    IN  all_hours \ excluded

\* earthquake times a catalogue may hold: on the hour and on the half hour
QuakeTimes == {k * 30 : k \in 0 .. 2 * MaxQuakeHour}

\* start_time = earthquake_datetimes.min().floor('h')
\* end_time = earthquake_datetimes.max().ceil('h')
BgDefineRange ==
    /\ bgpc = "range"
    /\ start_time' = FloorHour(CHOOSE t \in earthquake_datetimes :
                                  \A u \in earthquake_datetimes : t <= u)
    /\ end_time' = CeilHour(CHOOSE t \in earthquake_datetimes :
                               \A u \in earthquake_datetimes : t >= u)
    /\ bgpc' = "generate"
    /\ UNCHANGED <<earthquake_datetimes, background_hours, pipeVars>>

\* background_hours = generate_background_hours(start_time, end_time,
\*                                              earthquake_datetimes, buffer_hours=1)
BgGenerate ==
    /\ bgpc = "generate"
    /\ background_hours' = GenerateBackgroundHours(start_time, end_time,
                                                   earthquake_datetimes, BufferHours)
    /\ bgpc' = "done"
    /\ UNCHANGED <<earthquake_datetimes, start_time, end_time, pipeVars>>

\* generateBackgroundData.py after the catalogue was read
InitBg ==
    /\ path = "background"
    /\ fs_in = 20
    /\ fs_out = 100
    /\ overlapQ = 2
    /\ nEvents = 0
    /\ inputLens = {}
    /\ PipeStart
    /\ bgpc = "range"
    /\ earthquake_datetimes \in (SUBSET QuakeTimes) \ {{}}
    /\ start_time = 0
    /\ end_time = 0
    /\ background_hours = {}

NextBg == BgDefineRange \/ BgGenerate

SpecBg == InitBg /\ [][NextBg]_vars

---------------------------------------------------------------------------
(* Properties *)

\* the zero-padded 3-digit form of k, for 1 <= k <= 999
ThreeDigits(k) == <<k \div 100, (k \div 10) % 10, k % 10>>

EventKey(k) == [prefix |-> "event_", digits |-> ThreeDigits(k)]

WindowKey(k) == [prefix |-> "window_", digits |-> ThreeDigits(k)]

\* number of accepted events among the first i finished events
AcceptedUpTo(i) == Cardinality({j \in 1 .. i : outcomes[j] = "accepted"})

\* an event has just reached its outcome
EventEnded == pc = "for" /\ idx >= 1 /\ Len(outcomes) = idx

LastOutcome == outcomes[idx]

HasOp(name) == \E i \in DOMAIN trace : trace[i].op = name

\* the welch_psd calls made for the current event
WelchCalls == {i \in DOMAIN trace : trace[i].op = "welch"}

WindowKeysOf(d) == {k \in DOMAIN d : k.prefix = "window_"}

CeilDiv(a, b) == (a + b - 1) \div b

\* C1: the k-th accepted event, in input order, is stored under event_k
\* (1-based, zero-padded to 3 digits); the keys are gap-free and a rejected or
\* errored event consumes no sequence number
C1_KeysSequential ==
    /\ DOMAIN psdResults = {EventKey(k) : k \in 1 .. AcceptedUpTo(Len(outcomes))}
    /\ goodEventCounter = AcceptedUpTo(Len(outcomes)) + 1
    /\ \A i \in 1 .. Len(outcomes) :
          outcomes[i] = "accepted" =>
             LET e == psdResults[EventKey(AcceptedUpTo(i))]
             IN  /\ WindowKeysOf(e) # {}
                 /\ \A k \in WindowKeysOf(e) : e[k].power.of.event = i

\* C1 witness: of three events the second was rejected or errored; the first and
\* the third are stored under event_001 and event_002
C1_Witness ==
    /\ Len(outcomes) = 3
    /\ outcomes[1] = "accepted"
    /\ outcomes[2] # "accepted"
    /\ outcomes[3] = "accepted"
    /\ DOMAIN psdResults = {EventKey(1), EventKey(2)}
    /\ \A k \in WindowKeysOf(psdResults[EventKey(2)]) :
          psdResults[EventKey(2)][k].power.of.event = 3

\* C2: an event whose conditioned waveform yields num_windows < 11 is rejected
\* with no entry in psdResults; one that yields num_windows >= 11 and raises no
\* error is accepted
C2_Gate ==
    /\ pc \in {"newpsd", "welch", "store"} => num_windows >= 11
    /\ (EventEnded /\ HasOp("count")) =>
          /\ num_windows < 11 =>
                /\ LastOutcome = "fewwin"
                /\ psdResults = psd0
                /\ goodEventCounter = ctr0
          /\ (num_windows >= 11 /\ LastOutcome # "error") =>
                /\ LastOutcome = "accepted"
                /\ DOMAIN psdResults = DOMAIN psd0 \cup {EventKey(ctr0)}
                /\ EventKey(ctr0) \notin DOMAIN psd0

\* C2 witness: an event with 10 windows has just been rejected, after an event
\* with 11 windows was accepted
C2_Witness ==
    /\ EventEnded
    /\ HasOp("count")
    /\ num_windows = 10
    /\ LastOutcome = "fewwin"
    /\ idx = 2
    /\ outcomes[1] = "accepted"
    /\ Cardinality(WindowKeysOf(psdResults[EventKey(1)])) = 11

\* C3 as stated: the number of segments emitted for the event is
\* floor((L - Wd) / S) + 1 when L >= Wd, and when L < Wd none is emitted and the
\* event ends in the insufficient-samples rejection (events that raised set aside)
C3_Original ==
    (EventEnded /\ HasOp("resample") /\ stride > 0 /\ LastOutcome # "error") =>
       IF waveLen >= window_size
       THEN Cardinality(WelchCalls) = (waveLen - window_size) \div stride + 1
       ELSE Cardinality(WelchCalls) = 0 /\ LastOutcome = "short"

\* C3 amended: when L < Wd no segment is emitted and the event ends in the
\* insufficient-samples rejection; when L >= Wd the computed num_windows is
\* floor((L - Wd) / S) + 1, exactly that many segments are emitted when the event
\* is accepted, and none when it is rejected for insufficient windows
C3_Windowing ==
    (EventEnded /\ HasOp("resample") /\ stride > 0) =>
       /\ waveLen < window_size =>
             Cardinality(WelchCalls) = 0 /\ LastOutcome = "short"
       /\ (waveLen >= window_size /\ HasOp("count")) =>
             num_windows = (waveLen - window_size) \div stride + 1
       /\ LastOutcome = "accepted" =>
             Cardinality(WelchCalls) = (waveLen - window_size) \div stride + 1
       /\ LastOutcome = "fewwin" => Cardinality(WelchCalls) = 0

\* C3 witness: an accepted event under a configuration whose stride is truncated
\* (window 30, overlap 0.75, stride 7), the waveform not ending on a window
C3_Witness ==
    /\ EventEnded
    /\ LastOutcome = "accepted"
    /\ window_size = 30
    /\ stride = 7
    /\ (waveLen - window_size) % stride # 0
    /\ Cardinality(WelchCalls) = num_windows
    /\ num_windows > 11

\* C4: an event that raises, at whatever point, leaves psdResults and
\* goodEventCounter as they were when the event started, and the loop goes on:
\* every event of the batch reaches an outcome before the collection is saved
C4_Isolation ==
    /\ (EventEnded /\ LastOutcome = "error") =>
          /\ psdResults = psd0
          /\ goodEventCounter = ctr0
          /\ saved = <<>>
    /\ pc \in {"dump", "done"} => Len(outcomes) = nEvents

\* C4 witness: the second of three events has just raised inside welch_psd after
\* two of its windows had been computed; the entry of the first event is the only
\* one in psdResults and the loop is at its head again with an event to go
C4_Witness ==
    /\ EventEnded
    /\ idx = 2
    /\ nEvents = 3
    /\ outcomes = <<"accepted", "error">>
    /\ Cardinality(WelchCalls) = 3
    /\ Cardinality(WindowKeysOf(eventPSD)) = 2
    /\ \A k \in WindowKeysOf(eventPSD) : eventPSD[k].power.of.event = 2
    /\ DOMAIN psdResults = {EventKey(1)}

C6_BackgroundHoursClean ==
    bgpc = "done" =>
       \A h \in background_hours :
          /\ start_time <= h /\ h <= end_time
          /\ h % MinutesPerHour = 0
          /\ \A q \in earthquake_datetimes :
                ~(q - BufferHours * MinutesPerHour <= h
                  /\ h <= q + BufferHours * MinutesPerHour)

\* C7: an event that ends in either rejection had no welch_psd call; both checks
\* precede the first welch_psd call, the sample-length check directly after
\* resampling and before conditioning, the window-count check after conditioning
C7_GateBeforeEstimation ==
    /\ (EventEnded /\ LastOutcome \in {"short", "fewwin"}) => WelchCalls = {}
    /\ \A i \in DOMAIN trace :
          /\ trace[i].op = "welch" =>
                /\ \E j \in 1 .. i - 1 : trace[j].op = "lencheck"
                /\ \E j \in 1 .. i - 1 : trace[j].op = "count"
          /\ trace[i].op = "lencheck" =>
                /\ i > 1 /\ trace[i - 1].op = "resample"
                /\ \A j \in 1 .. i - 1 : trace[j].op # "preprocess"
          /\ trace[i].op = "preprocess" =>
                \E j \in 1 .. i - 1 : trace[j].op = "lencheck"
          /\ trace[i].op = "count" =>
                \E j \in 1 .. i - 1 : trace[j].op = "preprocess"

\* C7 witness: an event rejected for insufficient windows, after resampling, the
\* length check, conditioning and the window count, and without estimation
C7_Witness ==
    /\ EventEnded
    /\ LastOutcome = "fewwin"
    /\ trace = <<Op("extract"), Op("resample"), Op("lencheck"),
                 Op("preprocess"), Op("count")>>

\* C8: every segment passed to welch_psd has exactly window_size samples: the
\* w-th call (from 0) gets the slice that starts at w * stride and ends at
\* w * stride + window_size <= len(waveform); a stored window is the PSD of such
\* a segment, and after the last window no further full window fits
C8_FullSegments ==
    /\ \A i \in WelchCalls :
          LET k == Cardinality({j \in WelchCalls : j < i})
          IN  /\ trace[i].n = window_size
              /\ trace[i].a = k * stride
              /\ trace[i].a + window_size <= waveLen
    /\ \A k \in WindowKeysOf(eventPSD) : eventPSD[k].power.of.n = fs * 10
    /\ (EventEnded /\ LastOutcome = "accepted") =>
          /\ Cardinality(WelchCalls) = num_windows
          /\ num_windows * stride + window_size > waveLen

\* C8 witness: an accepted event whose waveform does not end on a window
\* boundary, so that a tail was discarded
C8_Witness ==
    /\ EventEnded
    /\ LastOutcome = "accepted"
    /\ Cardinality(WelchCalls) >= 11
    /\ (num_windows - 1) * stride + window_size < waveLen
    /\ stride # window_size \div 2

\* C9 as stated: for every waveform and positive rates the resampler returns a
\* waveform of ceil(len(w) * fs_out / fs_in) samples (an exception of the other
\* kind, raised inside the library, set aside)
C9_Original ==
    (fs_in >= 1 /\ fs_out >= 1) =>
       /\ pc = "lencheck" => waveLen = CeilDiv(rawLen * fs_out, fs_in)
       /\ ~(EventEnded /\ trace = <<Op("extract"), Op("except")>>)

\* C9 amended: for every waveform of more than 15 samples and positive rates the
\* resampler returns ceil(len(w) * fs_out / fs_in) samples; on a waveform of 15
\* samples or fewer safe_resample raises and the event is handled as an error
C9_ResampleLen ==
    (fs_in >= 1 /\ fs_out >= 1) =>
       /\ pc = "lencheck" =>
             /\ waveLen = CeilDiv(rawLen * fs_out, fs_in)
             /\ rawLen > 15
       /\ (EventEnded /\ trace = <<Op("extract"), Op("except")>>) =>
             /\ rawLen <= 15
             /\ LastOutcome = "error"

\* C9 witness: resampling 3 Hz -> 2 Hz a waveform whose length is not a multiple
\* of 3 has returned: the output length is rounded up
C9_Witness ==
    /\ pc = "lencheck"
    /\ fs_in = 3
    /\ fs_out = 2
    /\ rawLen % 3 # 0
    /\ waveLen * 3 > rawLen * 2

\* C10: the entry just stored for an accepted event holds exactly num_windows
\* windows, keyed window_001 .. window_<num_windows>; window_(w+1) is the PSD of
\* the segment of this event that starts at w * stride; the earthquake script
\* adds only the event's metadata, as read from the input, the background script
\* nothing
C10_FeatureSet ==
    (EventEnded /\ LastOutcome = "accepted") =>
       LET e == psdResults[EventKey(ctr0)]
       IN  /\ WindowKeysOf(e) = {WindowKey(k) : k \in 1 .. num_windows}
           /\ \A k \in 1 .. num_windows :
                 /\ e[WindowKey(k)].power.of =
                       [event |-> idx, start |-> (k - 1) * stride, n |-> window_size]
                 /\ e[WindowKey(k)].power.bins = e[WindowKey(k)].frequency.bins
           /\ DOMAIN e \ WindowKeysOf(e) =
                 IF path = "earthquake" THEN {MetaKey} ELSE {}
           /\ path = "earthquake" => e[MetaKey] = metadata

\* C10 witness: the earthquake script has stored a second accepted event, of 12
\* windows, whose metadata differs from the first event's
C10_Witness ==
    /\ EventEnded
    /\ LastOutcome = "accepted"
    /\ path = "earthquake"
    /\ num_windows = 12
    /\ ctr0 = 2
    /\ psdResults[EventKey(2)][MetaKey] = "metaB"
    /\ psdResults[EventKey(1)][MetaKey] = "metaA"
    /\ Cardinality(WindowKeysOf(psdResults[EventKey(2)])) = 12

\* C11: psdResults is saved exactly once per run, and only after every input
\* event has reached an outcome; an entry, once inserted, is never modified,
\* overwritten or removed by a later step
C11_Lifecycle ==
    /\ [](/\ Len(saved) <= 1
          /\ saved # <<>> =>
                /\ pc = "done"
                /\ Len(outcomes) = nEvents
                /\ idx = nEvents
                /\ saved[1] = psdResults
          /\ pc = "done" => Len(saved) = 1)
    /\ [][/\ \A k \in DOMAIN psdResults :
                k \in DOMAIN psdResults' /\ psdResults'[k] = psdResults[k]
          /\ \A i \in DOMAIN saved :
                i \in DOMAIN saved' /\ saved'[i] = saved[i]]_vars

\* C11 witness: a run over three events, the second not accepted, has ended;
\* the collection saved holds the entries of the first and the third event
C11_Witness ==
    /\ pc = "done"
    /\ nEvents = 3
    /\ outcomes[1] = "accepted"
    /\ outcomes[2] # "accepted"
    /\ outcomes[3] = "accepted"
    /\ Len(saved) = 1
    /\ DOMAIN saved[1] = {EventKey(1), EventKey(2)}
    /\ \A k \in WindowKeysOf(saved[1][EventKey(1)]) :
          saved[1][EventKey(1)][k].power.of.event = 1

\* C12: a waveform of exactly 4000 samples at 20 Hz, resampled to 100 Hz and
\* windowed with the default configuration, has 20000 samples and yields exactly
\* 39 segments; the event is accepted with 39 PSD windows (an exception raised
\* inside the library for another reason set aside)
C12_EndToEnd ==
    /\ (pc = "lencheck" /\ rawLen = 4000) => waveLen = 20000
    /\ (EventEnded /\ HasOp("extract") /\ rawLen = 4000 /\ ~HasOp("fault")) =>
          /\ waveLen = 20000
          /\ num_windows = 39
          /\ Cardinality(WelchCalls) = 39
          /\ LastOutcome = "accepted"
          /\ Cardinality(WindowKeysOf(psdResults[EventKey(ctr0)])) = 39

\* C12 witness: the event of 4000 samples has been stored with 39 windows, the
\* last one the PSD of the segment that starts at sample 19000
C12_Witness ==
    /\ EventEnded
    /\ rawLen = 4000
    /\ LastOutcome = "accepted"
    /\ DOMAIN psdResults = {EventKey(1)}
    /\ WindowKey(39) \in DOMAIN psdResults[EventKey(1)]
    /\ psdResults[EventKey(1)][WindowKey(39)].power.of.start = 19000

\* C13: with the configuration as written and no processing error, an event is
\* accepted if and only if its raw waveform has at least 1200 samples; raw
\* lengths 200 .. 1199 pass the sample-length check and are rejected for
\* insufficient windows; raw lengths below 200 are rejected for insufficient
\* samples
C13_RawThreshold ==
    (EventEnded /\ HasOp("extract") /\ LastOutcome # "error") =>
       /\ LastOutcome = "accepted" <=> rawLen >= 1200
       /\ (200 <= rawLen /\ rawLen <= 1199) =>
             /\ HasOp("lencheck")
             /\ HasOp("preprocess")
             /\ LastOutcome = "fewwin"
       /\ rawLen < 200 =>
             /\ LastOutcome = "short"
             /\ ~HasOp("preprocess")

\* C13 witness: an event of exactly 1200 raw samples has been accepted, with 11
\* windows
C13_Witness ==
    /\ EventEnded
    /\ HasOp("extract")
    /\ rawLen = 1200
    /\ num_windows = 11
    /\ LastOutcome = "accepted"
    /\ Cardinality(WelchCalls) = 11

=============================================================================
